---- MODULE Spec2Model ----
(***************************************************************************)
(* Model of server/app.py: the Flask handlers separate() (POST             *)
(* /api/separate) and detect_bpm() (POST /api/detect-bpm), the files they  *)
(* create and delete, and the responses they return.  Requests run         *)
(* concurrently; a handler is a sequence of steps, one per external call   *)
(* or pipeline stage, and the steps of different requests interleave.      *)
(* Paths are sequences of path components.                                 *)
(***************************************************************************)
EXTENDS Integers, Sequences, FiniteSets, TLC

\* ---------------------------------------------------------------- bounds
\* number of requests the server receives
MaxReqs == 2

\* requests, numbered in order of arrival
Reqs == 1..MaxReqs
\* the values uuid.uuid4() returns; a request draws at most one
UuidOf(i) == ToString(i)
UUIDs == {UuidOf(i) : i \in Reqs}

\* ---------------------------------------------------------------- paths
PROJECT_ROOT == <<"project">>
SERVER_DIR == PROJECT_ROOT \o <<"server">>
OUTPUT_DIR == SERVER_DIR \o <<"output">>
TEMP_DIR == <<"tmp">>
SAMPLE == PROJECT_ROOT \o <<"sample.mp3">>

None == <<>>

\* os.path.join(a, b): an absolute b (leading "/" component) discards a
Join(a, b) == IF b # <<>> /\ b[1] = "/" THEN Tail(b) ELSE a \o b

IsUnder(p, dir) == Len(p) > Len(dir) /\ SubSeq(p, 1, Len(dir)) = dir

\* os.listdir(dir) on the file system f
ListDir(f, dir) == {p[Len(dir) + 1] : p \in {q \in f : Len(q) = Len(dir) + 1 /\ IsUnder(q, dir)}}

\* shutil.rmtree(dir, ignore_errors=True)
RmTree(f, dir) == {p \in f : p # dir /\ ~IsUnder(p, dir)}

job_dir(job_id) == OUTPUT_DIR \o <<job_id>>
input_audio(job_id) == job_dir(job_id) \o <<"input_audio">>
demucs_out(job_id) == job_dir(job_id) \o <<"demucs_out">>
model_dir(job_id) == demucs_out(job_id) \o <<"htdemucs_6s">>
drums_wav(job_id) == job_dir(job_id) \o <<"drums.wav">>

TRACK == "input_audio"
DemucsStems == {"drums", "bass", "vocals", "other", "guitar", "piano"}
StemNames == {"kick", "drums", "bass", "vocals", "other"}
Mp3(s) == s \o ".mp3"

\* ---------------------------------------------------------------- inputs
FileFields == {"absent", "noname", "ok"}
\* values of the path form field: a project file, an absolute path to a file
\* that does not exist, and a stem of the first job
PathInputs == {<<"sample.mp3">>, <<"/", "missing.mp3">>,
               <<"server", "output", UuidOf(1), "kick.mp3">>}
\* what beat_track returns: the tempo in half beats per minute (241 is 120.5,
\* 243 is 121.5) and the beat timestamps in tenths of a second
BeatTracks == {[tempo |-> 241, beats |-> <<>>], [tempo |-> 243, beats |-> <<4, 8>>]}
StderrTexts == {"", "diag"}

\* ---------------------------------------------------------------- responses
NoStems == [s \in {} |-> <<>>]
NoResp == [status |-> 0, json |-> FALSE, keys |-> {}, stems |-> NoStems,
           bpm |-> 0, beatOffset |-> 0, error |-> "", detail |-> ""]

ErrorJson(status, msg) ==
    [NoResp EXCEPT !.status = status, !.json = TRUE, !.keys = {"error"}, !.error = msg]

\* an exception that leaves the view function: Flask answers 500, no JSON body
Unhandled500 == [NoResp EXCEPT !.status = 500]

StrE == "CalledProcessError"
ExcText == "exception"

\* python round(): ties go to the even integer; h is the tempo in halves
Round(h) ==
    LET q == h \div 2
    IN  IF h % 2 = 0 THEN q ELSE IF q % 2 = 0 THEN q ELSE q + 1

StemsBodyWrongJob(job_id) ==
    [NoResp EXCEPT !.status = 200, !.json = TRUE, !.keys = {"stems"},
        !.stems = [s \in StemNames |->
            <<"server", "output", IF s = "other" THEN "" ELSE job_id, Mp3(s)>>]]
\* the 200 body of separate()
StemsBody(job_id) ==
    [NoResp EXCEPT !.status = 200, !.json = TRUE, !.keys = {"stems"},
        !.stems = [s \in StemNames |-> <<"server", "output", job_id, Mp3(s)>>]]

RunNeverRaises(exit) == FALSE
\* subprocess.run(..., check=True) raises CalledProcessError on a non-zero exit
RunRaises(exit) == exit # 0

\* except subprocess.CalledProcessError: detail is e.stderr or str(e); stderr
\* is bytes unless the run was started with text=True, and jsonify raises
\* TypeError on bytes
ToolErrorResponse(run) ==
    LET useStderr == run.stderr # ""
        detail == IF useStderr THEN run.stderr ELSE StrE
        isBytes == useStderr /\ run.bytes
    IN  IF isBytes THEN Unhandled500
        ELSE [NoResp EXCEPT !.status = 500, !.json = TRUE, !.keys = {"error", "detail"},
                 !.error = "Stem separation failed", !.detail = detail]

\* except Exception in separate()
ExceptionResponse == ErrorJson(500, ExcText)

BpmErrorResponse500 == ErrorJson(500, ExcText)
\* except Exception in detect_bpm()
BpmErrorResponse ==
    [NoResp EXCEPT !.status = 200, !.json = TRUE, !.keys = {"error", "bpm"},
        !.error = ExcText, !.bpm = 120]

BpmBody(h) ==
    [NoResp EXCEPT !.status = 200, !.json = TRUE, !.keys = {"bpm"}, !.bpm = Round(h)]

Uuid4NotFresh(usedIds) == UUIDs
\* uuid.uuid4(): a value no earlier call returned.  The handlers only compare
\* ids for equality, so the fresh values are drawn in a fixed order.
Uuid4(usedIds) == {UuidOf(i) : i \in {k \in Reqs : k = Cardinality(usedIds) + 1}}

FinallyKeeps(tmp_path, f) == f
\* finally: if tmp_path and os.path.exists(tmp_path): os.remove(tmp_path)
FinallyFs(tmp_path, f) == IF tmp_path # None /\ tmp_path \in f THEN f \ {tmp_path} ELSE f

\* ---------------------------------------------------------------- state
VARIABLES req, fs, used
vars == <<req, fs, used>>

NewReq == [kind |-> "none", pc |-> "idle", fileField |-> "absent", hasPath |-> FALSE,
           path |-> None, job_id |-> "", tmp_path |-> None, audio_path |-> None,
           stem_dir |-> None,
           runs |-> <<>>, raised |-> FALSE, tempo |-> 0, beats |-> <<>>, resp |-> NoResp]

Init ==
    /\ req = [r \in Reqs |-> NewReq]
    /\ fs = {PROJECT_ROOT, SERVER_DIR, OUTPUT_DIR, TEMP_DIR, SAMPLE}
    /\ used = {}

\* the next request to arrive takes the first free slot
Arrives(r) == req[r].pc = "idle" /\ \A q \in Reqs : q < r => req[q].pc # "idle"

Done(r, rec, resp) == req' = [req EXCEPT ![r] = [rec EXCEPT !.pc = "done", !.resp = resp]]
Goto(r, rec, pc) == req' = [req EXCEPT ![r] = [rec EXCEPT !.pc = pc]]

Run(stage, isBytes, exit, text) ==
    [stage |-> stage, exit |-> exit, stderr |-> IF exit = 0 THEN "" ELSE text, bytes |-> isBytes]
ToolRuns(stage, isBytes) ==
    {Run(stage, isBytes, e, t) : e \in {0, 1}, t \in StderrTexts}

AddRun(rec, run) == [rec EXCEPT !.runs = Append(@, run)]

\* ---------------------------------------------------------------- separate()
\* lines 42-55: validation, job_id, job_dir, file.save(tmp_path)
SeparateStart(r) ==
    /\ Arrives(r)
    /\ \E ff \in FileFields :
        LET rec == [req[r] EXCEPT !.kind = "separate", !.fileField = ff]
        IN  \/ /\ ff = "absent"
               /\ Done(r, rec, ErrorJson(400, "No file uploaded"))
               /\ UNCHANGED <<fs, used>>
            \/ /\ ff = "noname"
               /\ Done(r, rec, ErrorJson(400, "Empty filename"))
               /\ UNCHANGED <<fs, used>>
            \/ /\ ff = "ok"
               /\ \E u \in Uuid4(used), saved \in BOOLEAN :
                    LET rec2 == [rec EXCEPT !.job_id = u, !.tmp_path = input_audio(u)]
                    IN  /\ used' = used \cup {u}
                        /\ IF saved
                           THEN /\ fs' = fs \cup {job_dir(u), input_audio(u)}
                                /\ Goto(r, rec2, "demucs")
                           ELSE /\ fs' = fs \cup {job_dir(u)}
                                /\ Done(r, [rec2 EXCEPT !.raised = TRUE], Unhandled500)

\* the stem sets a demucs run may leave: drums, bass and vocals with none, one,
\* two or all of other, guitar, piano, and the full set without drums or vocals
StemOutcomes ==
    {{"drums", "bass", "vocals"} \cup S :
        S \in {{}, {"other"}, {"guitar", "piano"}, {"other", "guitar", "piano"}}}
      \cup {DemucsStems \ {s} : s \in {"drums", "vocals"}}

\* what a demucs run that exits 0 leaves under demucs_out
DemucsTrees(j) ==
    LET sd == model_dir(j) \o <<TRACK>>
    IN  {{demucs_out(j), model_dir(j)}}
          \cup {{demucs_out(j), model_dir(j), sd} \cup {sd \o <<Mp3(s)>> : s \in S} :
                    S \in StemOutcomes}

\* lines 58-73: the demucs run, os.listdir(model_dir), stem_dir
SeparateDemucs(r) ==
    /\ req[r].pc = "demucs"
    /\ UNCHANGED used
    /\ LET j == req[r].job_id
       IN  \E run \in ToolRuns("demucs", FALSE), tree \in DemucsTrees(j) :
            LET rec == AddRun(req[r], run)
                fs1 == IF run.exit = 0 THEN fs \cup tree ELSE fs
                tracks == ListDir(fs1, model_dir(j))
            IN  /\ fs' = fs1
                /\ IF RunRaises(run.exit)
                   THEN Done(r, [rec EXCEPT !.raised = TRUE], ToolErrorResponse(run))
                   ELSE IF model_dir(j) \notin fs1
                   THEN Done(r, [rec EXCEPT !.raised = TRUE], ExceptionResponse)
                   ELSE IF tracks = {}
                   THEN Done(r, rec, ErrorJson(500, "Demucs produced no output"))
                   ELSE Goto(r, [rec EXCEPT !.stem_dir =
                                    model_dir(j) \o <<CHOOSE t \in tracks : TRUE>>], "kick")

\* lines 76-89: AudioSegment.from_mp3, export to drums.wav, the low-pass run
SeparateKick(r) ==
    /\ req[r].pc = "kick"
    /\ UNCHANGED used
    /\ LET j == req[r].job_id
           drums_path == req[r].stem_dir \o <<"drums.mp3">>
           kick_path == job_dir(j) \o <<"kick.mp3">>
       IN  IF drums_path \notin fs
           THEN /\ Done(r, [req[r] EXCEPT !.raised = TRUE], ExceptionResponse)
                /\ UNCHANGED fs
           ELSE \E run \in ToolRuns("lowpass", TRUE) :
                LET rec == AddRun(req[r], run)
                    fs1 == fs \cup {drums_wav(j)}
                IN  /\ fs' = IF run.exit = 0 THEN fs1 \cup {kick_path} ELSE fs1
                    /\ IF RunRaises(run.exit)
                       THEN Done(r, [rec EXCEPT !.raised = TRUE], ToolErrorResponse(run))
                       ELSE Goto(r, rec, "drums")

\* lines 92-97: the high-pass run
SeparateDrums(r) ==
    /\ req[r].pc = "drums"
    /\ UNCHANGED used
    /\ LET j == req[r].job_id
           drums_no_kick_path == job_dir(j) \o <<"drums.mp3">>
       IN  \E run \in ToolRuns("highpass", TRUE) :
            LET rec == AddRun(req[r], run)
            IN  /\ fs' = IF run.exit = 0 THEN fs \cup {drums_no_kick_path} ELSE fs
                /\ IF RunRaises(run.exit)
                   THEN Done(r, [rec EXCEPT !.raised = TRUE], ToolErrorResponse(run))
                   ELSE Goto(r, rec, "merge")

\* lines 100-121: merge guitar + piano + other into other.mp3
SeparateMerge(r) ==
    /\ req[r].pc = "merge"
    /\ UNCHANGED used
    /\ LET j == req[r].job_id
           sd == req[r].stem_dir
           candidates == <<sd \o <<"guitar.mp3">>, sd \o <<"piano.mp3">>, sd \o <<"other.mp3">>>>
           Exists(p) == p \in fs
           merge_inputs == SelectSeq(candidates, Exists)
           other_path == job_dir(j) \o <<"other.mp3">>
       IN  IF Len(merge_inputs) > 1
           THEN \E run \in ToolRuns("mix", TRUE) :
                LET rec == AddRun(req[r], run)
                IN  /\ fs' = IF run.exit = 0 THEN fs \cup {other_path} ELSE fs
                    /\ IF RunRaises(run.exit)
                       THEN Done(r, [rec EXCEPT !.raised = TRUE], ToolErrorResponse(run))
                       ELSE Goto(r, rec, "copy")
           ELSE IF Len(merge_inputs) = 1
           THEN /\ fs' = fs \cup {other_path}
                /\ Goto(r, req[r], "copy")
           ELSE /\ UNCHANGED fs
                /\ Goto(r, req[r], "copy")

\* lines 124-145: copy bass.mp3 and vocals.mp3, remove demucs_out, input_audio
\* and drums.wav, answer 200 with the stem URLs
SeparateFinish(r) ==
    /\ req[r].pc = "copy"
    /\ UNCHANGED used
    /\ LET j == req[r].job_id
           sd == req[r].stem_dir
           tmp_path == req[r].tmp_path
           bass_src == sd \o <<"bass.mp3">>
           vocals_src == sd \o <<"vocals.mp3">>
           bass_path == job_dir(j) \o <<"bass.mp3">>
           vocals_path == job_dir(j) \o <<"vocals.mp3">>
           fs1 == fs \cup {bass_path, vocals_path}
           fs2 == RmTree(fs1, demucs_out(j))
       IN  IF bass_src \notin fs
           THEN /\ UNCHANGED fs
                /\ Done(r, [req[r] EXCEPT !.raised = TRUE], ExceptionResponse)
           ELSE IF vocals_src \notin fs
           THEN /\ fs' = fs \cup {bass_path}
                /\ Done(r, [req[r] EXCEPT !.raised = TRUE], ExceptionResponse)
           ELSE IF tmp_path \notin fs2
           THEN /\ fs' = fs2
                /\ Done(r, [req[r] EXCEPT !.raised = TRUE], ExceptionResponse)
           ELSE /\ fs' = fs2 \ {tmp_path, drums_wav(j)}
                /\ Done(r, req[r], StemsBody(j))

\* ---------------------------------------------------------------- detect_bpm()
\* lines 176-180: the response is returned after the finally clause has run
Return(r, rec, resp, f) ==
    /\ fs' = FinallyFs(rec.tmp_path, f)
    /\ Done(r, rec, resp)

\* lines 160-170: the upload is saved to a temporary file, or path is joined
BpmStart(r) ==
    /\ Arrives(r)
    /\ \E ff \in {"absent", "ok"}, hp \in BOOLEAN :
        LET rec == [req[r] EXCEPT !.kind = "bpm", !.fileField = ff, !.hasPath = hp]
        IN  IF ff # "absent"
            THEN \E u \in Uuid4(used), saved \in BOOLEAN, partial \in BOOLEAN :
                 LET tmp_path == TEMP_DIR \o <<"bpm_" \o u>>
                     rec2 == [rec EXCEPT !.tmp_path = tmp_path]
                 IN  /\ used' = used \cup {u}
                     /\ IF saved
                        THEN /\ fs' = fs \cup {tmp_path}
                             /\ Goto(r, [rec2 EXCEPT !.audio_path = tmp_path], "detect")
                        ELSE Return(r, [rec2 EXCEPT !.raised = TRUE], BpmErrorResponse,
                                    IF partial THEN fs \cup {tmp_path} ELSE fs)
            ELSE IF hp
            THEN \E p \in PathInputs :
                 /\ Goto(r, [rec EXCEPT !.path = p, !.audio_path = Join(PROJECT_ROOT, p)], "detect")
                 /\ UNCHANGED <<fs, used>>
            ELSE /\ Return(r, rec, ErrorJson(400, "No file or path provided"), fs)
                 /\ UNCHANGED used

\* lines 172-180: librosa.load, beat_track, round; any exception answers 200
BpmDetect(r) ==
    /\ req[r].pc = "detect"
    /\ UNCHANGED used
    /\ \/ /\ req[r].audio_path \in fs
          /\ \E bt \in BeatTracks :
                Return(r, [req[r] EXCEPT !.tempo = bt.tempo, !.beats = bt.beats],
                       BpmBody(bt.tempo), fs)
       \/ Return(r, [req[r] EXCEPT !.raised = TRUE], BpmErrorResponse, fs)

Next ==
    \/ \E r \in Reqs : SeparateStart(r)
    \/ \E r \in Reqs : SeparateDemucs(r)
    \/ \E r \in Reqs : SeparateKick(r)
    \/ \E r \in Reqs : SeparateDrums(r)
    \/ \E r \in Reqs : SeparateMerge(r)
    \/ \E r \in Reqs : SeparateFinish(r)
    \/ \E r \in Reqs : BpmStart(r)
    \/ \E r \in Reqs : BpmDetect(r)

Spec == Init /\ [][Next]_vars

\* ---------------------------------------------------------------- file accesses
\* the job whose directory holds p, "" when p is in no job directory
JobOf(p) == IF IsUnder(p, OUTPUT_DIR) THEN p[Len(OUTPUT_DIR) + 1] ELSE ""

\* the paths the step a request is about to take opens for reading
Reads(rec) ==
    LET j == rec.job_id
        sd == rec.stem_dir
    IN  CASE rec.pc = "demucs" -> {rec.tmp_path}
          [] rec.pc = "kick" -> {sd \o <<"drums.mp3">>, drums_wav(j)}
          [] rec.pc = "drums" -> {drums_wav(j)}
          [] rec.pc = "merge" -> {sd \o <<"guitar.mp3">>, sd \o <<"piano.mp3">>, sd \o <<"other.mp3">>}
          [] rec.pc = "copy" -> {sd \o <<"bass.mp3">>, sd \o <<"vocals.mp3">>}
          [] rec.pc = "detect" -> {rec.audio_path}
          [] OTHER -> {}

\* the paths the step from rec to post creates or overwrites
Writes(rec, post) ==
    LET j == rec.job_id
    IN  CASE rec.pc = "idle" -> IF post.tmp_path = None THEN {} ELSE {post.tmp_path}
          [] rec.pc = "demucs" -> {demucs_out(j)}
          [] rec.pc = "kick" -> {drums_wav(j), job_dir(j) \o <<"kick.mp3">>}
          [] rec.pc = "drums" -> {job_dir(j) \o <<"drums.mp3">>}
          [] rec.pc = "merge" -> {job_dir(j) \o <<"other.mp3">>}
          [] rec.pc = "copy" -> {job_dir(j) \o <<"bass.mp3">>, job_dir(j) \o <<"vocals.mp3">>}
          [] OTHER -> {}

\* the paths the step from rec to post removes
Deletes(rec, post) ==
    LET j == rec.job_id
    IN  CASE rec.pc = "copy" -> {demucs_out(j), rec.tmp_path, drums_wav(j)}
          [] rec.kind = "bpm" /\ post.pc = "done" ->
                IF post.tmp_path = None THEN {} ELSE {post.tmp_path}
          [] OTHER -> {}

\* ---------------------------------------------------------------- properties
IsSeparate(r) == req[r].kind = "separate"
IsBpm(r) == req[r].kind = "bpm"
Returned(r) == req[r].pc = "done"
HasJob(r) == IsSeparate(r) /\ req[r].job_id # ""
LastRun(r) == req[r].runs[Len(req[r].runs)]
ToolFailed(r) == IsSeparate(r) /\ Len(req[r].runs) > 0 /\ LastRun(r).exit # 0
FinalStems == {Mp3(s) : s \in StemNames}

\* C1: every 200 response of separate() carries a stems object with exactly the
\* keys kick, drums, bass, vocals, other, each value /server/output/{job_id}/
\* {stem}.mp3 with the job_id of the directory this request, and no other, created
C1_StemUrls ==
    \A r \in Reqs : (IsSeparate(r) /\ req[r].resp.status = 200) =>
        /\ req[r].resp.json /\ req[r].resp.keys = {"stems"}
        /\ DOMAIN req[r].resp.stems = {"kick", "drums", "bass", "vocals", "other"}
        /\ \A s \in DOMAIN req[r].resp.stems :
              req[r].resp.stems[s] = <<"server", "output", req[r].job_id, s \o ".mp3">>
        /\ req[r].job_id # "" /\ job_dir(req[r].job_id) \in fs
        /\ \A q \in Reqs \ {r} : req[q].job_id # req[r].job_id

C1_Witness == \E r \in Reqs : IsSeparate(r) /\ Returned(r) /\ req[r].resp.status = 200

\* C2: whenever separate() answers 200 the job directory holds exactly
\* kick.mp3, drums.mp3, bass.mp3, vocals.mp3 and other.mp3
C2_FiveFilesOn200 ==
    \A r \in Reqs : (IsSeparate(r) /\ req[r].resp.status = 200) =>
        ListDir(fs, job_dir(req[r].job_id)) = FinalStems

\* the outputs of the stages that follow a stage
LaterOutputs(stage) ==
    CASE stage = "demucs" -> {"drums.wav", "kick.mp3", "drums.mp3", "other.mp3", "bass.mp3", "vocals.mp3"}
      [] stage = "lowpass" -> {"drums.mp3", "other.mp3", "bass.mp3", "vocals.mp3"}
      [] stage = "highpass" -> {"other.mp3", "bass.mp3", "vocals.mp3"}
      [] stage = "mix" -> {"bass.mp3", "vocals.mp3"}

\* C3: a non-zero exit of the demucs, low-pass, high-pass or mix run ends the
\* request there: no later stage runs or leaves its output, and the response
\* is not a 200 and has no stems object
C3_FailedRunAborts ==
    \A r \in Reqs : IsSeparate(r) =>
        \A i \in 1..Len(req[r].runs) : req[r].runs[i].exit # 0 =>
            /\ i = Len(req[r].runs)
            /\ Returned(r)
            /\ req[r].resp.status # 200
            /\ "stems" \notin req[r].resp.keys
            /\ ListDir(fs, job_dir(req[r].job_id)) \cap LaterOutputs(req[r].runs[i].stage) = {}

C3_Witness ==
    /\ \E r \in Reqs : ToolFailed(r) /\ Returned(r) /\ LastRun(r).stage = "demucs"
    /\ \E r \in Reqs : ToolFailed(r) /\ Returned(r) /\ LastRun(r).stage = "highpass"

\* C4: every external run that exits non-zero is answered with a 500 whose JSON
\* body has an error string and a detail field holding the captured stderr
C4_ToolErrorHasDetail ==
    \A r \in Reqs : (ToolFailed(r) /\ Returned(r)) =>
        /\ req[r].resp.status = 500
        /\ req[r].resp.json
        /\ {"error", "detail"} \subseteq req[r].resp.keys
        /\ LastRun(r).stderr # "" => req[r].resp.detail = LastRun(r).stderr

NeitherSupplied(r) == req[r].fileField = "absent" /\ ~req[r].hasPath

\* C5: detect_bpm() answers 400 with an error key exactly when neither file nor
\* path is supplied; otherwise it answers 200 with bpm present, and an error
\* key when saving, loading or extraction failed; never a 5xx
C5_BpmStatus ==
    \A r \in Reqs : (IsBpm(r) /\ Returned(r)) =>
        /\ req[r].resp.status = 400 <=> NeitherSupplied(r)
        /\ req[r].resp.status = 400 => "error" \in req[r].resp.keys
        /\ ~NeitherSupplied(r) =>
              /\ req[r].resp.status = 200
              /\ "bpm" \in req[r].resp.keys
              /\ req[r].raised => "error" \in req[r].resp.keys
        /\ req[r].resp.status < 500

C5_Witness ==
    /\ \E r \in Reqs : IsBpm(r) /\ Returned(r) /\ req[r].raised /\ req[r].resp.status = 200
    /\ \E r \in Reqs : IsBpm(r) /\ Returned(r) /\ NeitherSupplied(r)

DetectSucceeded(r) == IsBpm(r) /\ Returned(r) /\ ~NeitherSupplied(r) /\ ~req[r].raised
FirstBeat(beats) == IF beats = <<>> THEN 0 ELSE beats[1]

\* C6: when detection succeeds the 200 response has bpm, the tempo rounded to
\* the nearest integer, and beatOffset, the first beat or 0.0 when there is none
C6_BpmAndBeatOffset ==
    \A r \in Reqs : DetectSucceeded(r) =>
        /\ req[r].resp.status = 200
        /\ "bpm" \in req[r].resp.keys
        /\ 2 * req[r].resp.bpm - req[r].tempo \in {-1, 0, 1}
        /\ "beatOffset" \in req[r].resp.keys
        /\ req[r].resp.beatOffset = FirstBeat(req[r].beats)

\* C7: when loading the audio or extracting the tempo raises, the response is
\* a 200 with bpm 0 and beatOffset 0
C7_ErrorDefaults ==
    \A r \in Reqs : (IsBpm(r) /\ Returned(r) /\ req[r].raised /\ req[r].audio_path # None) =>
        /\ req[r].resp.status = 200
        /\ "bpm" \in req[r].resp.keys /\ req[r].resp.bpm = 0
        /\ "beatOffset" \in req[r].resp.keys /\ req[r].resp.beatOffset = 0

\* C8: once detect_bpm() has returned for a request with a file upload, its
\* temporary file does not exist, whether detection succeeded or failed; and
\* no step of a request with only a path removes the file the path names
C8_TempFileRemoved ==
    [][\A r \in Reqs :
          /\ (req'[r].kind = "bpm" /\ req'[r].pc = "done" /\ req'[r].fileField # "absent") =>
                (req'[r].tmp_path # None /\ req'[r].tmp_path \notin fs')
          /\ (req'[r].kind = "bpm" /\ req'[r] # req[r]
                /\ req'[r].fileField = "absent" /\ req'[r].hasPath) =>
                (req'[r].audio_path \in fs => req'[r].audio_path \in fs')]_vars

C8_Witness ==
    /\ \E r \in Reqs : IsBpm(r) /\ Returned(r) /\ req[r].fileField # "absent" /\ req[r].raised
    /\ \E r \in Reqs : IsBpm(r) /\ Returned(r) /\ req[r].fileField = "absent"
                          /\ req[r].hasPath /\ req[r].audio_path \in fs

\* C9: every separate() request that created a job directory returns, on
\* success and on failure at any stage, with input_audio, drums.wav and
\* demucs_out absent from the job directory
C9_IntermediatesPruned ==
    \A r \in Reqs : (HasJob(r) /\ Returned(r)) =>
        ListDir(fs, job_dir(req[r].job_id)) \cap {"input_audio", "drums.wav", "demucs_out"} = {}

\* the paths a step of request r touches, from the state before and after it
Changed(f, g) == (g \ f) \cup (f \ g)
ForeignJob(p, rec) == JobOf(p) # "" /\ JobOf(p) # rec.job_id

\* C10 as stated: no two separation jobs share a directory, and no request of
\* either endpoint reads, overwrites or deletes a file in another job's directory
C10_NoForeignAccess ==
    [][/\ \A q, r \in Reqs : (q # r /\ req'[q].job_id # "") => req'[q].job_id # req'[r].job_id
       /\ \A r \in Reqs : req'[r] # req[r] =>
            \A p \in Changed(fs, fs') \cup Writes(req[r], req'[r]) \cup Deletes(req[r], req'[r])
                        \cup (Reads(req[r]) \cap fs) :
                ~ForeignJob(p, req'[r])]_vars

\* C10 amended: no two separation jobs share a directory, no separation request
\* reads, overwrites or deletes a file in another job's directory, and no
\* detection request overwrites or deletes a file in any job directory
C10_NoForeignWrite ==
    [][/\ \A q, r \in Reqs : (q # r /\ req'[q].job_id # "") => req'[q].job_id # req'[r].job_id
       /\ \A r \in Reqs : req'[r] # req[r] =>
            \A p \in Changed(fs, fs') \cup Writes(req[r], req'[r]) \cup Deletes(req[r], req'[r])
                        \cup (IF req'[r].kind = "separate" THEN Reads(req[r]) ELSE {}) :
                ~ForeignJob(p, req'[r])]_vars

C10_Witness ==
    \E q, r \in Reqs :
        /\ q # r /\ HasJob(q) /\ HasJob(r)
        /\ req[q].pc \in {"kick", "drums", "merge", "copy"}
        /\ req[r].pc \in {"kick", "drums", "merge", "copy"}
        /\ req[q].stem_dir \in fs /\ req[r].stem_dir \in fs

====
